---- MODULE Spec2Model ----
(***************************************************************************)
(* License manager: one encrypted license file per product, created,       *)
(* validated (with usage accounting), viewed, revoked.                     *)
(*                                                                         *)
(* Strings that the code concatenates or rewrites character by character   *)
(* (machine ids, product names, file names) are sequences of one-character *)
(* strings.  A formatted timestamp is the pair <<local time, UTC offset>>, *)
(* compared the way Go compares the RFC3339 strings.  A calendar day is    *)
(* the number of the day.  Hashes, PBKDF2 and AES-GCM are symbolic.        *)
(***************************************************************************)
EXTENDS Integers, Sequences, FiniteSets, TLC

(* ------------------------------ bounds --------------------------------- *)

\* the clock runs over the instants 0..MaxTime (one tick = one RFC3339 second)
MaxTime == 4

\* a validation that would raise run_count above MaxRuns is not taken
MaxRuns == 3

\* the largest finite term (max_days) a create request asks for
MaxTerm == 2

\* ticks per calendar day
TicksPerDay == 2

\* the last instant of the clock where several products are licensed
ManyTime == 2

\* the longest machine id and product name given to GenerateSerial
MaxIdLen == 2

\* the lifetime sentinel that LICENSE_LIFETIME_DAYS sets in the configuration
\* with a short sentinel
ShortLifetimeDays == 1

\* the largest UTC offset of the local time zone, in ticks
MaxZone == 2

(* -------------------------- program constants -------------------------- *)

\* config.DefaultConfig: LifetimeDays
LifetimeDays == 99999

\* Revoke: GenerateRandomBytes(1024)
RevokeBytes == 1024

\* cipher.NewGCM: gcm.NonceSize()
NonceSize == 12

(* ------------------------------ strings -------------------------------- *)

Digit(d) == <<"0", "1", "2", "3", "4", "5", "6", "7", "8", "9">>[d + 1]

RECURSIVE NatDigits(_)
NatDigits(n) == IF n < 10 THEN <<Digit(n)>>
                ELSE NatDigits(n \div 10) \o <<Digit(n % 10)>>

\* fmt.Sprintf("%d", n)
Itoa(n) == IF n < 0 THEN <<"-">> \o NatDigits(0 - n) ELSE NatDigits(n)

\* the characters sanitizeFilename replaces
InvalidChars == {" ", "/", "\\", ":", "*", "?", "\"", "<", ">", "|"}

sanitizeFilename(name) ==
    [i \in 1..Len(name) |-> IF name[i] \in InvalidChars THEN "_" ELSE name[i]]

GetLicenseFilePathForProduct(productName) ==
    sanitizeFilename(productName) \o <<".license">>

(* ------------------------------- time ---------------------------------- *)

\* the empty string of last_used_date / first_run_date
EmptyString == <<>>

\* the zone suffix of an RFC3339 string: "Z" for offset 0, "+hh:mm" otherwise;
\* "+" sorts before "Z", and two "+hh:mm" suffixes sort by their digits
SuffixLess(z1, z2) == IF z2 = 0 THEN z1 # 0 ELSE z1 # 0 /\ z1 < z2

\* now.Format(time.RFC3339): local date and time, then the zone suffix
FormatRFC3339(t, z) == <<t + z, z>>

\* now.Format("2006-01-02"): the local calendar day
FormatDay(t, z) == (t + z) \div TicksPerDay

\* Go's a < b on the strings
StringLess(a, b) ==
    IF a = EmptyString THEN b # EmptyString
    ELSE IF b = EmptyString THEN FALSE
    ELSE a[1] < b[1] \/ (a[1] = b[1] /\ SuffixLess(a[2], b[2]))

\* Go's a > b on the strings
StringGreater(a, b) == StringLess(b, a)

(* --------------------------- key derivation ---------------------------- *)

\* sha256.Sum256([]byte(masterKey)): symbolic, injective
NormalizeKey(masterKey) == <<"sha256", masterKey>>

deriveSalt(cm, purpose) == <<"sha256", "LICENSE_MANAGER_2025_", purpose, cm.masterKey>>

Pbkdf2(password, salt) == <<"pbkdf2", password, salt>>

DeriveSerialKey(cm) == Pbkdf2(cm.masterKey, deriveSalt(cm, "SERIAL_KEY_DERIVATION"))

\* an encryption key that does not depend on the master secret
DeriveEncryptionKeyNoSecret(cm) ==
    Pbkdf2("", <<"sha256", "LICENSE_MANAGER_2025_", "ENCRYPTION_KEY_DERIVATION">>)

DeriveEncryptionKey(cm) == Pbkdf2(cm.masterKey, deriveSalt(cm, "ENCRYPTION_KEY_DERIVATION"))

NewCryptoManagerWithKey(masterKey) == [masterKey |-> NormalizeKey(masterKey)]

\* a manager that pads the environment variable to 32 bytes, not hashing it
NewCryptoManagerPadded(envKey) == [masterKey |-> <<"pad32", envKey>>]

\* NewCryptoManager: getMasterKey hashes LICENSE_MASTER_KEY with SHA-256
NewCryptoManager(envKey) == [masterKey |-> NormalizeKey(envKey)]

(* --------------------------- serial binding ---------------------------- *)

\* the fields put one after the other with no delimiter between them
SerialDataNoDelimiter(cm, pcId, productName, maxDays) ==
    pcId \o productName \o Itoa(maxDays) \o <<DeriveSerialKey(cm)>>

\* the string GenerateSerial hashes; the hex of the key is one symbol, it
\* holds no '|'
SerialData(cm, pcId, productName, maxDays) ==
    pcId \o <<"|">> \o productName \o <<"|">> \o Itoa(maxDays) \o <<"|">>
         \o <<DeriveSerialKey(cm)>>

\* md5, dashes every 5 characters, first 23 characters, upper case: symbolic
GenerateSerial(cm, pcId, productName, maxDays) ==
    <<"md5", SerialData(cm, pcId, productName, maxDays)>>

(* ------------------------------ envelope ------------------------------- *)

NoFile == [kind |-> "none"]

\* rand.Read(nonce): a nonce that the envelope at the path does not hold
FreshNonce(data) == IF data.kind = "envelope" THEN 1 - data.nonce ELSE 0

\* GenerateRandomBytes: a block that the path does not hold
FreshBlock(data) == IF data.kind = "random" THEN 1 - data.bytes ELSE 0

RandomFile(g) == [kind |-> "random", len |-> RevokeBytes, bytes |-> g]

\* gcm.Seal(nonce, nonce, data, nil): nonce, then ciphertext and tag
Encrypt(cm, data, nonce) ==
    [kind |-> "envelope", key |-> DeriveEncryptionKey(cm), nonce |-> nonce,
     plain |-> data]

\* the first n bytes of an envelope, n less than its length
TruncatedFile(n) == [kind |-> "truncated", len |-> n]

\* an envelope with some of its bits flipped
FlippedFile == [kind |-> "flipped"]

\* len(data) < nonceSize, then gcm.Open: fails unless the bytes are whole and
\* were sealed under the same key
Decrypt(cm, data) ==
    IF data.kind = "envelope" /\ data.key = DeriveEncryptionKey(cm)
    THEN [ok |-> TRUE, plain |-> data.plain]
    ELSE IF data.kind \in {"random", "truncated"} /\ data.len < NonceSize
    THEN [ok |-> FALSE, err |-> "ciphertext too short"]
    ELSE [ok |-> FALSE, err |-> "cipher: message authentication failed"]

(* ---------------------------- license record --------------------------- *)

NilMap == [isNil |-> TRUE, keys |-> {}]

MakeMap(S) == [isNil |-> FALSE, keys |-> S]

NoLicense == [nil |-> TRUE]

\* the encoding that leaves usage_map out altogether
MarshalNoMap(license) == [license EXCEPT !.UsageMap = NilMap]

\* json.MarshalIndent: usage_map has omitempty, a nil or empty map is left out
Marshal(license) ==
    [license EXCEPT !.UsageMap = IF @.keys = {} THEN NilMap ELSE @]

\* json.Unmarshal into a zero License: an absent usage_map stays nil
Unmarshal(data) == data

Range(s) == {s[i] : i \in 1..Len(s)}

(* ------------------------------ managers ------------------------------- *)

M1 == <<"m", "1">>
M2 == <<"m", "2">>

NewManagerWithKey(masterKey, pcid) ==
    [crypto |-> NewCryptoManagerWithKey(masterKey), PCID |-> pcid,
     LifetimeDays |-> LifetimeDays]

Managers == {NewManagerWithKey("S1", M1), NewManagerWithKey("S1", M2)}

Products == {<<"A", " ", "B">>}

Paths == {GetLicenseFilePathForProduct(p) : p \in Products}

\* the MaxDays values of create requests
TermRequests == {-1} \cup (0..MaxTerm) \cup {LifetimeDays}

\* the create requests: every term without the flag, and the flag with a
\* zero and with a finite term
CreateRequests ==
    {[ProductName |-> p, MaxDays |-> d, IsLifetime |-> FALSE] :
        p \in Products, d \in TermRequests}
    \cup {[ProductName |-> p, MaxDays |-> d, IsLifetime |-> TRUE] :
        p \in Products, d \in {0, MaxTerm}}

IsLifetimeRequest(m, maxDays) == maxDays = -1 \/ maxDays >= m.LifetimeDays

(* ------------------------------- state --------------------------------- *)

VARIABLES
    files,      \* path -> bytes of the file, NoFile when the path does not exist
    clock,      \* the system clock (time.Now()), in ticks
    zone,       \* the UTC offset of time.Local, in ticks
    revoked,    \* the paths on which a Revoke has succeeded
    last,       \* the call that has just returned, NoCall once the clock has moved
    inflight    \* process -> the validate call it is in the middle of

vars == <<files, clock, zone, revoked, last, inflight>>

\* the processes that may run a validate call at the same time
Procs == {1, 2}

\* no process is in a call
Idle == [i \in Procs |-> [pc |-> "idle"]]

(* ------------------------------ errors --------------------------------- *)

\* readAndVerifyLicense
ErrNotFound == "license file not found"
ErrDecrypt  == "failed to decrypt license file (file may be corrupted)"
ErrWrongPC  == "license is not valid for this PC"
ErrSerial   == "license serial is invalid"
ErrRollback == "system date/time appears to have been rolled back - license validation failed"
ErrExpired  == "license has expired"

\* Create
ErrExists == "license file already exists"

\* View
ErrViewRead    == "failed to read license file for product"
ErrViewDecrypt == "failed to decrypt license file for product"
ErrViewWrongPC == "license for product is not valid for this PC"

\* Revoke
ErrRevokeNotFound == "no license file found for product"

\* readAndVerifyLicense, saveLicense: the write of the file failed
ErrSave      == "failed to update license usage"
ErrWriteFile == "failed to write license file"

(* --------------------------- record store ------------------------------ *)

\* the existence check left out
StatNever(data) == FALSE

\* the existence check that takes only a decryptable file for a license
StatOnlyEnvelope(data) == data.kind = "envelope"

\* os.Stat(licenseFile): err == nil
StatOk(data) == data # NoFile

\* os.Stat(filename): os.IsNotExist(err)
IsNotExist(data) == data = NoFile

\* saveLicense: the bytes os.WriteFile puts at the path
saveLicense(m, license, nonce) == Encrypt(m.crypto, Marshal(license), nonce)

\* what a call of readAndVerifyLicense comes to: the error ("" for nil), the
\* error it wraps, the license returned, and the bytes written when it saved
Failed(err, detail) ==
    [err |-> err, detail |-> detail, license |-> NoLicense, saved |-> FALSE,
     file |-> NoFile]

Saved(m, license, nonce) ==
    [err |-> "", detail |-> "", license |-> license, saved |-> TRUE,
     file |-> saveLicense(m, license, nonce)]

(* ------------------------ validation state machine --------------------- *)

\* first activation that leaves first_run_date empty
ActivateNoFirstRun(license, nowRFC3339, today) ==
    [license EXCEPT !.IsActivated = TRUE,
                    !.LastUsedDate = nowRFC3339,
                    !.RunCount = 1,
                    !.UsageHistory = <<today>>,
                    !.UsageMap = MakeMap({today})]

\* first activation that makes an empty usage_map
ActivateEmptyMap(license, nowRFC3339, today) ==
    [license EXCEPT !.IsActivated = TRUE,
                    !.FirstRunDate = nowRFC3339,
                    !.LastUsedDate = nowRFC3339,
                    !.RunCount = 1,
                    !.UsageHistory = <<today>>,
                    !.UsageMap = MakeMap({})]

\* first activation that stamps the record with the day of the activation
ActivateRestamp(license, nowRFC3339, today) ==
    [license EXCEPT !.IsActivated = TRUE,
                    !.FirstRunDate = nowRFC3339,
                    !.LastUsedDate = nowRFC3339,
                    !.RunCount = 1,
                    !.CreatedAt = today,
                    !.UsageHistory = <<today>>,
                    !.UsageMap = MakeMap({today})]

\* first activation that leaves run_count at 0
ActivateNoCount(license, nowRFC3339, today) ==
    [license EXCEPT !.IsActivated = TRUE,
                    !.FirstRunDate = nowRFC3339,
                    !.LastUsedDate = nowRFC3339,
                    !.UsageHistory = <<today>>,
                    !.UsageMap = MakeMap({today})]

\* readAndVerifyLicense, lines 810-817: first activation
Activate(license, nowRFC3339, today) ==
    [license EXCEPT !.IsActivated = TRUE,
                    !.FirstRunDate = nowRFC3339,
                    !.LastUsedDate = nowRFC3339,
                    !.RunCount = 1,
                    !.UsageHistory = <<today>>,
                    !.UsageMap = MakeMap({today})]

\* usage accounting that appends today whether or not it is on record
RecordUsageAlwaysAppend(license, nowRFC3339, today) ==
    [license EXCEPT !.LastUsedDate = nowRFC3339,
                    !.UsageHistory = Append(@, today),
                    !.UsageMap = MakeMap(Range(license.UsageHistory) \cup {today})]

\* usage accounting that puts today at the front of the days
RecordUsagePrepend(license, nowRFC3339, today) ==
    LET usageMap  == IF license.UsageMap.isNil
                     THEN MakeMap(Range(license.UsageHistory))
                     ELSE license.UsageMap
        usedToday == today \in usageMap.keys
    IN  IF ~usedToday
        THEN [license EXCEPT !.LastUsedDate = nowRFC3339,
                             !.UsageHistory = <<today>> \o @,
                             !.UsageMap = MakeMap(usageMap.keys \cup {today})]
        ELSE [license EXCEPT !.LastUsedDate = nowRFC3339,
                             !.UsageMap = usageMap]

\* usage accounting that takes an absent usage_map for an empty one
RecordUsageNoRebuild(license, nowRFC3339, today) ==
    LET usageMap  == IF license.UsageMap.isNil
                     THEN MakeMap({})
                     ELSE license.UsageMap
        usedToday == today \in usageMap.keys
    IN  IF ~usedToday
        THEN [license EXCEPT !.LastUsedDate = nowRFC3339,
                             !.UsageHistory = Append(@, today),
                             !.UsageMap = MakeMap(usageMap.keys \cup {today})]
        ELSE [license EXCEPT !.LastUsedDate = nowRFC3339,
                             !.UsageMap = usageMap]

\* usage accounting that stamps first_run_date at every run
RecordUsageRestamp(license, nowRFC3339, today) ==
    LET usageMap  == IF license.UsageMap.isNil
                     THEN MakeMap(Range(license.UsageHistory))
                     ELSE license.UsageMap
        usedToday == today \in usageMap.keys
    IN  IF ~usedToday
        THEN [license EXCEPT !.FirstRunDate = nowRFC3339,
                             !.LastUsedDate = nowRFC3339,
                             !.UsageHistory = Append(@, today),
                             !.UsageMap = MakeMap(usageMap.keys \cup {today})]
        ELSE [license EXCEPT !.FirstRunDate = nowRFC3339,
                             !.LastUsedDate = nowRFC3339,
                             !.UsageMap = usageMap]

\* readAndVerifyLicense, lines 838-871: usage accounting of a later run
RecordUsage(license, nowRFC3339, today) ==
    LET usageMap  == IF license.UsageMap.isNil
                     THEN MakeMap(Range(license.UsageHistory))
                     ELSE license.UsageMap
        usedToday == today \in usageMap.keys
    IN  IF ~usedToday
        THEN [license EXCEPT !.LastUsedDate = nowRFC3339,
                             !.UsageHistory = Append(@, today),
                             !.UsageMap = MakeMap(usageMap.keys \cup {today})]
        ELSE [license EXCEPT !.LastUsedDate = nowRFC3339,
                             !.UsageMap = usageMap]

\* the expiration check with >= for >: the last allowed day is refused
CheckExpiredOffByOne(m, license, nonce) ==
    IF ~license.IsLifetime /\ Len(license.UsageHistory) >= license.MaxDays
    THEN Failed(ErrExpired, "")
    ELSE Saved(m, license, nonce)

\* the expiration check that takes no notice of is_lifetime
CheckExpiredIgnoringLifetime(m, license, nonce) ==
    IF Len(license.UsageHistory) > license.MaxDays
    THEN Failed(ErrExpired, "")
    ELSE Saved(m, license, nonce)

\* the expiration check made after the save: the record is on file when the
\* call reports it expired
CheckExpiredAfterSave(m, license, nonce) ==
    IF ~license.IsLifetime /\ Len(license.UsageHistory) > license.MaxDays
    THEN [err |-> ErrExpired, detail |-> "", license |-> NoLicense, saved |-> TRUE,
          file |-> saveLicense(m, license, nonce)]
    ELSE Saved(m, license, nonce)

\* readAndVerifyLicense, lines 874-882: expiration check, then save
CheckExpiredAndSave(m, license, nonce) ==
    IF ~license.IsLifetime /\ Len(license.UsageHistory) > license.MaxDays
    THEN Failed(ErrExpired, "")
    ELSE Saved(m, license, nonce)

\* the transition whose same-instant branch saves the record as it was read,
\* run_count not incremented
TransitionSameInstantNoCount(m, license, nowRFC3339, today, nonce) ==
    IF ~license.IsActivated
    THEN CheckExpiredAndSave(m, Activate(license, nowRFC3339, today), nonce)
    ELSE LET counted == [license EXCEPT !.RunCount = @ + 1] IN
         IF counted.LastUsedDate # EmptyString /\ counted.LastUsedDate = nowRFC3339
         THEN Saved(m, license, nonce)
         ELSE IF counted.LastUsedDate # EmptyString
                 /\ StringGreater(counted.LastUsedDate, nowRFC3339)
         THEN Failed(ErrRollback, "")
         ELSE CheckExpiredAndSave(m, RecordUsage(counted, nowRFC3339, today), nonce)

\* the transition without the rollback check of lines 832-835
TransitionNoRollback(m, license, nowRFC3339, today, nonce) ==
    IF ~license.IsActivated
    THEN CheckExpiredAndSave(m, Activate(license, nowRFC3339, today), nonce)
    ELSE LET counted == [license EXCEPT !.RunCount = @ + 1] IN
         IF counted.LastUsedDate # EmptyString /\ counted.LastUsedDate = nowRFC3339
         THEN Saved(m, counted, nonce)
         ELSE CheckExpiredAndSave(m, RecordUsage(counted, nowRFC3339, today), nonce)

\* readAndVerifyLicense, lines 806-872: the state transition on a verified record
Transition(m, license, nowRFC3339, today, nonce) ==
    IF ~license.IsActivated
    THEN CheckExpiredAndSave(m, Activate(license, nowRFC3339, today), nonce)
    ELSE LET counted == [license EXCEPT !.RunCount = @ + 1] IN
         IF counted.LastUsedDate # EmptyString /\ counted.LastUsedDate = nowRFC3339
         THEN Saved(m, counted, nonce)
         ELSE IF counted.LastUsedDate # EmptyString
                 /\ StringGreater(counted.LastUsedDate, nowRFC3339)
         THEN Failed(ErrRollback, "")
         ELSE CheckExpiredAndSave(m, RecordUsage(counted, nowRFC3339, today), nonce)

\* readAndVerifyLicense with the serial compared before the machine id
readAndVerifyLicenseSerialFirst(m, data, currentPcId, t, z, nonce) ==
    IF IsNotExist(data) THEN Failed(ErrNotFound, "")
    ELSE LET d == Decrypt(m.crypto, data) IN
    IF ~d.ok THEN Failed(ErrDecrypt, d.err)
    ELSE LET license == Unmarshal(d.plain) IN
    IF license.Serial #
            GenerateSerial(m.crypto, currentPcId, license.ProductName, license.MaxDays)
    THEN Failed(ErrSerial, "")
    ELSE IF license.PCId # currentPcId THEN Failed(ErrWrongPC, "")
    ELSE Transition(m, license, FormatRFC3339(t, z), FormatDay(t, z), nonce)

\* readAndVerifyLicense(filename, currentPcId) on the bytes at filename, with
\* the clock reading t in zone z
readAndVerifyLicense(m, data, currentPcId, t, z, nonce) ==
    IF IsNotExist(data) THEN Failed(ErrNotFound, "")
    ELSE LET d == Decrypt(m.crypto, data) IN
    IF ~d.ok THEN Failed(ErrDecrypt, d.err)
    ELSE LET license == Unmarshal(d.plain) IN
    IF license.PCId # currentPcId THEN Failed(ErrWrongPC, "")
    ELSE IF license.Serial #
            GenerateSerial(m.crypto, currentPcId, license.ProductName, license.MaxDays)
    THEN Failed(ErrSerial, "")
    ELSE Transition(m, license, FormatRFC3339(t, z), FormatDay(t, z), nonce)

(* ------------------------------ operations ----------------------------- *)

NoRequest == [none |-> TRUE]

\* the record of a call: the operation, the manager that ran it, the product,
\* the create request, the bytes at the path before the call, the timestamp
\* the call captured, the error ("" for none) and the error it wraps, whether
\* the Go error result is non-nil, and the value returned
Call(op, m, productName, req, pre, now, err, detail, goErr, ret) ==
    [op |-> op, mgr |-> m, product |-> productName, req |-> req, pre |-> pre,
     now |-> now, err |-> err, detail |-> detail, goErr |-> goErr, ret |-> ret]

NoCall == Call("none", NoRequest, <<>>, NoRequest, NoFile, EmptyString, "", "",
               FALSE, NoLicense)

\* the record of a create request with the serial bound to the requested
\* term instead of the stored one
NewLicenseRequestedTerm(m, req, t, z) ==
    LET isLifetime == req.IsLifetime \/ IsLifetimeRequest(m, req.MaxDays)
        maxDays    == IF isLifetime THEN m.LifetimeDays ELSE req.MaxDays
    IN  [Serial       |-> GenerateSerial(m.crypto, m.PCID, req.ProductName, req.MaxDays),
         PCId         |-> m.PCID,
         ProductName  |-> req.ProductName,
         CreatedAt    |-> FormatDay(t, z),
         MaxDays      |-> maxDays,
         IsLifetime   |-> isLifetime,
         LastUsedDate |-> EmptyString,
         FirstRunDate |-> EmptyString,
         RunCount     |-> 0,
         IsActivated  |-> FALSE,
         UsageHistory |-> <<>>,
         UsageMap     |-> MakeMap({})]

\* the record of a create request with max_days stored as requested, the
\* lifetime sentinel not put in its place
NewLicenseNoClamp(m, req, t, z) ==
    LET isLifetime == req.IsLifetime \/ IsLifetimeRequest(m, req.MaxDays)
    IN  [Serial       |-> GenerateSerial(m.crypto, m.PCID, req.ProductName, req.MaxDays),
         PCId         |-> m.PCID,
         ProductName  |-> req.ProductName,
         CreatedAt    |-> FormatDay(t, z),
         MaxDays      |-> req.MaxDays,
         IsLifetime   |-> isLifetime,
         LastUsedDate |-> EmptyString,
         FirstRunDate |-> EmptyString,
         RunCount     |-> 0,
         IsActivated  |-> FALSE,
         UsageHistory |-> <<>>,
         UsageMap     |-> MakeMap({})]

\* Create, lines 601-628: the record a create request makes
NewLicense(m, req, t, z) ==
    LET isLifetime == req.IsLifetime \/ IsLifetimeRequest(m, req.MaxDays)
        maxDays    == IF isLifetime THEN m.LifetimeDays ELSE req.MaxDays
    IN  [Serial       |-> GenerateSerial(m.crypto, m.PCID, req.ProductName, maxDays),
         PCId         |-> m.PCID,
         ProductName  |-> req.ProductName,
         CreatedAt    |-> FormatDay(t, z),
         MaxDays      |-> maxDays,
         IsLifetime   |-> isLifetime,
         LastUsedDate |-> EmptyString,
         FirstRunDate |-> EmptyString,
         RunCount     |-> 0,
         IsActivated  |-> FALSE,
         UsageHistory |-> <<>>,
         UsageMap     |-> MakeMap({})]

Create(m, req) ==
    LET licenseFile == GetLicenseFilePathForProduct(req.ProductName)
        pre         == files[licenseFile]
        license     == NewLicense(m, req, clock, zone)
        now         == FormatRFC3339(clock, zone)
        nonce       == FreshNonce(pre)
    IN  /\ IF StatOk(pre)
           THEN /\ files' = files
                /\ last' = Call("create", m, req.ProductName, req, pre, now,
                                ErrExists, "", TRUE, NoLicense)
           ELSE /\ files' = [files EXCEPT ![licenseFile] = saveLicense(m, license, nonce)]
                /\ last' = Call("create", m, req.ProductName, req, pre, now,
                                "", "", FALSE, license)
        /\ UNCHANGED <<clock, zone, revoked, inflight>>

\* Validate: the Go error is always nil, the outcome is in the ValidationResult
Validate(m, productName) ==
    LET licenseFile == GetLicenseFilePathForProduct(productName)
        pre         == files[licenseFile]
        r           == readAndVerifyLicense(m, pre, m.PCID, clock, zone, FreshNonce(pre))
    IN  /\ r.err = "" => r.license.RunCount <= MaxRuns
        /\ files' = IF r.saved THEN [files EXCEPT ![licenseFile] = r.file] ELSE files
        /\ last' = Call("validate", m, productName, NoRequest, pre,
                        FormatRFC3339(clock, zone), r.err, r.detail, FALSE, r.license)
        /\ UNCHANGED <<clock, zone, revoked, inflight>>

\* the LicenseInfo that counts the runs for the days used
LicenseInfoUsedRuns(license) ==
    [ProductName   |-> license.ProductName,
     IsLifetime    |-> license.IsLifetime,
     MaxDays       |-> license.MaxDays,
     UsedDays      |-> license.RunCount,
     RemainingDays |-> IF license.IsLifetime THEN 0
                       ELSE IF license.MaxDays - license.RunCount > 0
                            THEN license.MaxDays - license.RunCount ELSE 0,
     RunCount      |-> license.RunCount,
     FirstRunDate  |-> license.FirstRunDate,
     LastUsedDate  |-> license.LastUsedDate,
     UsageHistory  |-> license.UsageHistory,
     IsValid       |-> TRUE]

\* GetInfo, lines 672-689: the LicenseInfo of a validated license
LicenseInfo(license) ==
    [ProductName   |-> license.ProductName,
     IsLifetime    |-> license.IsLifetime,
     MaxDays       |-> license.MaxDays,
     UsedDays      |-> Len(license.UsageHistory),
     RemainingDays |-> IF license.IsLifetime THEN 0
                       ELSE IF license.MaxDays - Len(license.UsageHistory) > 0
                            THEN license.MaxDays - Len(license.UsageHistory) ELSE 0,
     RunCount      |-> license.RunCount,
     FirstRunDate  |-> license.FirstRunDate,
     LastUsedDate  |-> license.LastUsedDate,
     UsageHistory  |-> license.UsageHistory,
     IsValid       |-> TRUE]

\* GetInfo runs Validate and reports on the license it returns
GetInfo(m, productName) ==
    LET licenseFile == GetLicenseFilePathForProduct(productName)
        pre         == files[licenseFile]
        r           == readAndVerifyLicense(m, pre, m.PCID, clock, zone, FreshNonce(pre))
    IN  /\ r.err = "" => r.license.RunCount <= MaxRuns
        /\ files' = IF r.saved THEN [files EXCEPT ![licenseFile] = r.file] ELSE files
        /\ last' = Call("getinfo", m, productName, NoRequest, pre,
                        FormatRFC3339(clock, zone), r.err, r.detail, r.err # "",
                        IF r.err = "" THEN LicenseInfo(r.license) ELSE NoLicense)
        /\ UNCHANGED <<clock, zone, revoked, inflight>>

\* View without the machine check of lines 718-720
ViewResultNoPcCheck(m, data) ==
    IF IsNotExist(data) THEN Failed(ErrViewRead, "")
    ELSE LET d == Decrypt(m.crypto, data) IN
    IF ~d.ok THEN Failed(ErrViewDecrypt, d.err)
    ELSE [err |-> "", detail |-> "", license |-> Unmarshal(d.plain),
          saved |-> FALSE, file |-> NoFile]

\* View that writes back the license it has read
ViewResultResave(m, data) ==
    IF IsNotExist(data) THEN Failed(ErrViewRead, "")
    ELSE LET d == Decrypt(m.crypto, data) IN
    IF ~d.ok THEN Failed(ErrViewDecrypt, d.err)
    ELSE LET license == Unmarshal(d.plain) IN
    IF license.PCId # m.PCID THEN Failed(ErrViewWrongPC, "")
    ELSE Saved(m, license, FreshNonce(data))

\* View, lines 703-722: read, decrypt, parse, compare the machine id
ViewResult(m, data) ==
    IF IsNotExist(data) THEN Failed(ErrViewRead, "")
    ELSE LET d == Decrypt(m.crypto, data) IN
    IF ~d.ok THEN Failed(ErrViewDecrypt, d.err)
    ELSE LET license == Unmarshal(d.plain) IN
    IF license.PCId # m.PCID THEN Failed(ErrViewWrongPC, "")
    ELSE [err |-> "", detail |-> "", license |-> license, saved |-> FALSE,
          file |-> NoFile]

View(m, productName) ==
    LET licenseFile == GetLicenseFilePathForProduct(productName)
        pre         == files[licenseFile]
        r           == ViewResult(m, pre)
    IN  /\ files' = IF r.saved THEN [files EXCEPT ![licenseFile] = r.file] ELSE files
        /\ last' = Call("view", m, productName, NoRequest, pre,
                        FormatRFC3339(clock, zone), r.err, r.detail, r.err # "",
                        r.license)
        /\ UNCHANGED <<clock, zone, revoked, inflight>>

\* Revoke that reports success and leaves the file alone
RevokeResultNoWrite(data, block) ==
    IF IsNotExist(data)
    THEN [err |-> ErrRevokeNotFound, file |-> data]
    ELSE [err |-> "", file |-> data]

\* Revoke without the existence check of lines 732-735
RevokeResultNoCheck(data, block) == [err |-> "", file |-> RandomFile(block)]

\* Revoke, lines 732-749: the bytes at the path after the call, and the error
RevokeResult(data, block) ==
    IF IsNotExist(data)
    THEN [err |-> ErrRevokeNotFound, file |-> data]
    ELSE [err |-> "", file |-> RandomFile(block)]

\* Revoke that overwrites every license file of the directory
RevokeAll(m, productName) ==
    LET licenseFile == GetLicenseFilePathForProduct(productName)
        pre         == files[licenseFile]
        r           == RevokeResult(pre, FreshBlock(pre))
    IN  /\ files' = [path \in DOMAIN files |->
                        IF r.err = "" /\ files[path] # NoFile
                        THEN RandomFile(FreshBlock(files[path])) ELSE files[path]]
        /\ revoked' = IF r.err = "" THEN revoked \cup {licenseFile} ELSE revoked
        /\ last' = Call("revoke", m, productName, NoRequest, pre,
                        FormatRFC3339(clock, zone), r.err, "", r.err # "", NoLicense)
        /\ UNCHANGED <<clock, zone, inflight>>

Revoke(m, productName) ==
    LET licenseFile == GetLicenseFilePathForProduct(productName)
        pre         == files[licenseFile]
        r           == RevokeResult(pre, FreshBlock(pre))
    IN  /\ files' = [files EXCEPT ![licenseFile] = r.file]
        /\ revoked' = IF r.err = "" THEN revoked \cup {licenseFile} ELSE revoked
        /\ last' = Call("revoke", m, productName, NoRequest, pre,
                        FormatRFC3339(clock, zone), r.err, "", r.err # "", NoLicense)
        /\ UNCHANGED <<clock, zone, inflight>>

\* the system clock moves on
Tick ==
    /\ clock < MaxTime
    /\ clock' = clock + 1
    /\ last' = NoCall
    /\ UNCHANGED <<files, zone, revoked, inflight>>

\* somebody sets the system clock back
SetClockBack ==
    /\ \E t \in 0..MaxTime : t < clock /\ clock' = t
    /\ last' = NoCall
    /\ UNCHANGED <<files, zone, revoked, inflight>>

Init ==
    /\ files = [p \in Paths |-> NoFile]
    /\ clock = 0
    /\ zone = 0
    /\ revoked = {}
    /\ inflight = Idle
    /\ last = NoCall

Next ==
    \/ \E m \in Managers, req \in CreateRequests : Create(m, req)
    \/ \E m \in Managers, p \in Products : Validate(m, p)
    \/ \E m \in Managers, p \in Products : GetInfo(m, p)
    \/ \E m \in Managers, p \in Products : View(m, p)
    \/ \E m \in Managers, p \in Products : Revoke(m, p)
    \/ Tick
    \/ SetClockBack

Spec == Init /\ [][Next]_vars

(* ------------------- a configuration with a short sentinel ------------- *)

\* LoadConfig: LICENSE_LIFETIME_DAYS, when it is a positive number, takes the
\* place of the default sentinel
LoadConfig(lifetimeDays) ==
    IF lifetimeDays > 0 THEN lifetimeDays ELSE LifetimeDays

\* the manager of a process started with LICENSE_LIFETIME_DAYS set
ShortLifetimeManager ==
    [NewManagerWithKey("S1", M1) EXCEPT !.LifetimeDays = LoadConfig(ShortLifetimeDays)]

\* its create requests: a term below the sentinel with and without the flag,
\* and a term that reaches the sentinel
ShortLifetimeRequests ==
    {[ProductName |-> p, MaxDays |-> d, IsLifetime |-> f] :
        p \in Products, d \in {0, ShortLifetimeDays}, f \in BOOLEAN}

NextShortLifetime ==
    \/ \E req \in ShortLifetimeRequests : Create(ShortLifetimeManager, req)
    \/ \E p \in Products : Validate(ShortLifetimeManager, p)
    \/ \E p \in Products : View(ShortLifetimeManager, p)
    \/ \E p \in Products : Revoke(ShortLifetimeManager, p)
    \/ Tick
    \/ SetClockBack

SpecShortLifetime == Init /\ [][NextShortLifetime]_vars

(* --------------------------- several products -------------------------- *)

\* three product names: the first two differ only in a character that
\* sanitizeFilename replaces, so they share a file; the third has its own
ManyProducts == {<<"A", " ", "B">>, <<"A", "_", "B">>, <<"C">>}

ManyPaths == {GetLicenseFilePathForProduct(p) : p \in ManyProducts}

\* the one manager of this machine
Mgr == NewManagerWithKey("S1", M1)

\* a one-day term and a lifetime license for each product
ManyRequests ==
    {[ProductName |-> p, MaxDays |-> d, IsLifetime |-> FALSE] :
        p \in ManyProducts, d \in {1, -1}}

\* the system clock moves on, up to ManyTime
TickMany == clock < ManyTime /\ Tick

InitMany ==
    /\ files = [p \in ManyPaths |-> NoFile]
    /\ clock = 0
    /\ zone = 0
    /\ revoked = {}
    /\ inflight = Idle
    /\ last = NoCall

NextMany ==
    \/ \E req \in ManyRequests : Create(Mgr, req)
    \/ \E p \in ManyProducts : Validate(Mgr, p)
    \/ \E p \in ManyProducts : GetInfo(Mgr, p)
    \/ \E p \in ManyProducts : View(Mgr, p)
    \/ \E p \in ManyProducts : Revoke(Mgr, p)
    \/ TickMany

SpecMany == InitMany /\ [][NextMany]_vars

(* ------------------------ damaged and cut-short files ------------------ *)

\* the lengths a file is cut to: nothing, less than a nonce, a nonce alone
TruncatedLengths == {0, NonceSize - 1, NonceSize}

DamageRequests == {req \in ManyRequests : req.ProductName \in Products}

\* os.WriteFile(filename, encryptedData, 0644) that stops after n bytes
\* (disk full, process stopped): the file was opened with O_TRUNC and holds
\* the bytes written so far
WriteFileCutShort(data, n) == TruncatedFile(n)

\* a validate call whose save is cut short after n bytes
ValidateCutShort(m, productName, n) ==
    LET licenseFile == GetLicenseFilePathForProduct(productName)
        pre         == files[licenseFile]
        r           == readAndVerifyLicense(m, pre, m.PCID, clock, zone, FreshNonce(pre))
    IN  /\ r.saved
        /\ r.license.RunCount <= MaxRuns
        /\ files' = [files EXCEPT ![licenseFile] = WriteFileCutShort(r.file, n)]
        /\ last' = Call("validate", m, productName, NoRequest, pre,
                        FormatRFC3339(clock, zone), ErrSave, ErrWriteFile, FALSE,
                        NoLicense)
        /\ UNCHANGED <<clock, zone, revoked, inflight>>

\* bit-rot: some bits of a license file flip
FlipBits(path) ==
    /\ files[path].kind = "envelope"
    /\ files' = [files EXCEPT ![path] = FlippedFile]
    /\ last' = NoCall
    /\ UNCHANGED <<clock, zone, revoked, inflight>>

\* a license file loses its tail
Truncate(path, n) ==
    /\ files[path].kind \in {"envelope", "flipped"}
    /\ files' = [files EXCEPT ![path] = TruncatedFile(n)]
    /\ last' = NoCall
    /\ UNCHANGED <<clock, zone, revoked, inflight>>

NextDamage ==
    \/ \E req \in DamageRequests : Create(Mgr, req)
    \/ \E p \in Products : Validate(Mgr, p)
    \/ \E p \in Products : View(Mgr, p)
    \/ \E p \in Products : Revoke(Mgr, p)
    \/ \E p \in Products, n \in TruncatedLengths : ValidateCutShort(Mgr, p, n)
    \/ \E path \in Paths : FlipBits(path)
    \/ \E path \in Paths, n \in TruncatedLengths : Truncate(path, n)
    \/ Tick

SpecDamage == Init /\ [][NextDamage]_vars

(* --------------------------- two master secrets ------------------------ *)

\* the managers of two processes on this machine, started with different
\* master secrets
KeyManagers == {NewManagerWithKey("S1", M1), NewManagerWithKey("S2", M1)}

NextKeys ==
    \/ \E m \in KeyManagers, req \in DamageRequests : Create(m, req)
    \/ \E m \in KeyManagers, p \in Products : Validate(m, p)
    \/ \E m \in KeyManagers, p \in Products : View(m, p)
    \/ \E m \in KeyManagers, p \in Products : Revoke(m, p)
    \/ Tick

SpecKeys == Init /\ [][NextKeys]_vars

(* ---------------------------- two constructors ------------------------- *)

\* the master-key strings
MasterKeys == {"S1", "S2"}

\* NewManager: the master key comes from LICENSE_MASTER_KEY
NewManager(envKey, pcid) ==
    [crypto |-> NewCryptoManager(envKey), PCID |-> pcid,
     LifetimeDays |-> LifetimeDays]

\* a process that got its key from the environment, and one on the same
\* machine that got the same string as an argument
EnvManager == NewManager("S1", M1)
ArgManager == NewManagerWithKey("S1", M1)

\* licenses are created by the first process and used by the second
NextConstructors ==
    \/ \E req \in DamageRequests : Create(EnvManager, req)
    \/ \E p \in Products : Validate(ArgManager, p)
    \/ \E p \in Products : View(ArgManager, p)
    \/ \E p \in Products : GetInfo(ArgManager, p)
    \/ Tick

SpecConstructors == Init /\ [][NextConstructors]_vars

(* ------------------------- serials of two inputs ----------------------- *)

\* the strings of 1..MaxIdLen characters over a letter and the delimiter
RECURSIVE StringsUpTo(_)
StringsUpTo(n) ==
    IF n = 0 THEN {<<>>}
    ELSE StringsUpTo(n - 1)
         \cup {Append(w, c) : w \in {v \in StringsUpTo(n - 1) : Len(v) = n - 1},
                              c \in {"a", "|"}}

SerialStrings == StringsUpTo(MaxIdLen) \ {<<>>}

\* the inputs of GenerateSerial: machine id, product name, term
SerialInputs ==
    [pcId : SerialStrings, productName : SerialStrings, maxDays : {-1, 1, 10}]

\* the crypto manager whose serial key binds
SerialCrypto == NewCryptoManagerWithKey("S1")

InitSerial ==
    /\ files = [p \in Paths |-> NoFile]
    /\ clock = 0
    /\ zone = 0
    /\ revoked = {}
    /\ inflight = Idle
    /\ \E a \in SerialInputs : last = [op |-> "serial", a |-> a]

\* GenerateSerial on the input of the state and on a second input b
Bind(b) ==
    /\ last.op = "serial"
    /\ last' = [op |-> "bound", a |-> last.a, b |-> b,
                dataA  |-> SerialData(SerialCrypto, last.a.pcId, last.a.productName,
                                      last.a.maxDays),
                dataB  |-> SerialData(SerialCrypto, b.pcId, b.productName, b.maxDays),
                tokenA |-> GenerateSerial(SerialCrypto, last.a.pcId,
                                          last.a.productName, last.a.maxDays),
                tokenB |-> GenerateSerial(SerialCrypto, b.pcId, b.productName,
                                          b.maxDays)]
    /\ UNCHANGED <<files, clock, zone, revoked, inflight>>

NextSerial == \E b \in SerialInputs : Bind(b)

SpecSerial == InitSerial /\ [][NextSerial]_vars

(* ------------------------ terms of every sign -------------------------- *)

\* create requests with a negative term that is not the lifetime value -1, a
\* zero term and a positive one: Create takes any int for MaxDays
SignedRequests ==
    {[ProductName |-> p, MaxDays |-> d, IsLifetime |-> FALSE] :
        p \in Products, d \in {0 - MaxTerm, 0, MaxTerm}}

NextSigned ==
    \/ \E req \in SignedRequests : Create(Mgr, req)
    \/ \E p \in Products : Validate(Mgr, p)
    \/ \E p \in Products : View(Mgr, p)
    \/ Tick
    \/ SetClockBack

SpecSigned == Init /\ [][NextSigned]_vars

(* -------------------- validate calls that overlap ------------------------ *)

\* Validate up to os.ReadFile (line 782): the process holds the bytes it found
BeginValidate(i, m, productName) ==
    /\ inflight[i].pc = "idle"
    /\ inflight' = [inflight EXCEPT ![i] =
          [pc |-> "read", mgr |-> m, product |-> productName,
           pre |-> files[GetLicenseFilePathForProduct(productName)]]]
    /\ UNCHANGED <<files, clock, zone, revoked, last>>

\* how the write of process i falls among the calls of the others: "first"
\* when another process has read and not yet written, "second" when another
\* process wrote first while this one had read, "alone" otherwise
RaceOf(i) ==
    IF \E j \in Procs \ {i} : inflight[j].pc = "read" THEN "first"
    ELSE IF \E j \in Procs \ {i} : inflight[j].pc = "done" /\ inflight[j].race = "first"
    THEN "second"
    ELSE "alone"

\* the rest of the call under a lock that makes it read the file again
FinishValidateLocked(i) ==
    LET c           == inflight[i]
        licenseFile == GetLicenseFilePathForProduct(c.product)
        r           == readAndVerifyLicense(c.mgr, files[licenseFile], c.mgr.PCID,
                                            clock, zone, FreshNonce(files[licenseFile]))
    IN  /\ c.pc = "read"
        /\ r.err = "" => r.license.RunCount <= MaxRuns
        /\ files' = IF r.saved THEN [files EXCEPT ![licenseFile] = r.file] ELSE files
        /\ inflight' = [inflight EXCEPT ![i] =
              [pc |-> "done", mgr |-> c.mgr, product |-> c.product, pre |-> c.pre,
               err |-> r.err, ret |-> r.license, wrote |-> r.file,
               race |-> RaceOf(i)]]
        /\ last' = Call("validate", c.mgr, c.product, NoRequest, c.pre,
                        FormatRFC3339(clock, zone), r.err, r.detail, FALSE, r.license)
        /\ UNCHANGED <<clock, zone, revoked>>

\* the rest of the call (lines 787-882): the checks, the clock reading and
\* the transition on the bytes read earlier, then os.WriteFile
FinishValidate(i) ==
    LET c           == inflight[i]
        licenseFile == GetLicenseFilePathForProduct(c.product)
        r           == readAndVerifyLicense(c.mgr, c.pre, c.mgr.PCID, clock, zone,
                                            FreshNonce(files[licenseFile]))
    IN  /\ c.pc = "read"
        /\ r.err = "" => r.license.RunCount <= MaxRuns
        /\ files' = IF r.saved THEN [files EXCEPT ![licenseFile] = r.file] ELSE files
        /\ inflight' = [inflight EXCEPT ![i] =
              [pc |-> "done", mgr |-> c.mgr, product |-> c.product, pre |-> c.pre,
               err |-> r.err, ret |-> r.license, wrote |-> r.file,
               race |-> RaceOf(i)]]
        /\ last' = Call("validate", c.mgr, c.product, NoRequest, c.pre,
                        FormatRFC3339(clock, zone), r.err, r.detail, FALSE, r.license)
        /\ UNCHANGED <<clock, zone, revoked>>

\* the caller has its ValidationResult and may call again
Return(i) ==
    /\ inflight[i].pc = "done"
    /\ inflight' = [inflight EXCEPT ![i] = [pc |-> "idle"]]
    /\ UNCHANGED <<files, clock, zone, revoked, last>>

NextRace ==
    \/ \E req \in DamageRequests : Create(Mgr, req)
    \/ \E i \in Procs, p \in Products : BeginValidate(i, Mgr, p)
    \/ \E i \in Procs : FinishValidate(i)
    \/ \E i \in Procs : Return(i)
    \/ TickMany

SpecRace == Init /\ [][NextRace]_vars

(* ------------------ a revoke during a validate call ---------------------- *)

\* the process that validates; the create and revoke calls are another's
Validator == 1

\* a revoke call stats and writes the file (lines 733-747) while the validate
\* call of the other process may be between its read and its write
NextRevokeRace ==
    \/ \E req \in DamageRequests : Create(Mgr, req)
    \/ \E p \in Products : BeginValidate(Validator, Mgr, p)
    \/ FinishValidate(Validator)
    \/ Return(Validator)
    \/ \E p \in Products : Revoke(Mgr, p)
    \/ TickMany

SpecRevokeRace == Init /\ [][NextRevokeRace]_vars

(* ---------------------- create calls that overlap ------------------------ *)

\* Create up to the existence check (lines 591-599): when the file exists the
\* call returns the error, otherwise the process goes on to make the record
BeginCreate(i, m, req) ==
    LET licenseFile == GetLicenseFilePathForProduct(req.ProductName)
        pre         == files[licenseFile]
    IN  /\ inflight[i].pc = "idle"
        /\ IF StatOk(pre)
           THEN /\ inflight' = [inflight EXCEPT ![i] =
                      [pc |-> "created", mgr |-> m, req |-> req, pre |-> pre,
                       err |-> ErrExists]]
                /\ last' = Call("create", m, req.ProductName, req, pre,
                                FormatRFC3339(clock, zone), ErrExists, "", TRUE,
                                NoLicense)
           ELSE /\ inflight' = [inflight EXCEPT ![i] =
                      [pc |-> "stat", mgr |-> m, req |-> req, pre |-> pre]]
                /\ last' = last
        /\ UNCHANGED <<files, clock, zone, revoked>>

\* the rest of the call (lines 601-634): the record is made and saveLicense
\* writes it with os.WriteFile, whatever is at the path by then
FinishCreate(i) ==
    LET c           == inflight[i]
        licenseFile == GetLicenseFilePathForProduct(c.req.ProductName)
        license     == NewLicense(c.mgr, c.req, clock, zone)
    IN  /\ c.pc = "stat"
        /\ files' = [files EXCEPT ![licenseFile] =
              saveLicense(c.mgr, license, FreshNonce(files[licenseFile]))]
        /\ inflight' = [inflight EXCEPT ![i] =
              [pc |-> "created", mgr |-> c.mgr, req |-> c.req, pre |-> c.pre,
               err |-> ""]]
        /\ last' = Call("create", c.mgr, c.req.ProductName, c.req, c.pre,
                        FormatRFC3339(clock, zone), "", "", FALSE, license)
        /\ UNCHANGED <<clock, zone, revoked>>

\* the caller has the result of its create call and may call again
ReturnCreate(i) ==
    /\ inflight[i].pc = "created"
    /\ inflight' = [inflight EXCEPT ![i] = [pc |-> "idle"]]
    /\ UNCHANGED <<files, clock, zone, revoked, last>>

NextCreateRace ==
    \/ \E i \in Procs, req \in DamageRequests : BeginCreate(i, Mgr, req)
    \/ \E i \in Procs : FinishCreate(i)
    \/ \E i \in Procs : ReturnCreate(i)
    \/ \E p \in Products : Validate(Mgr, p)
    \/ TickMany

SpecCreateRace == Init /\ [][NextCreateRace]_vars

(* ----------------------- records edited on disk ------------------------- *)

\* the terms an edited record is given
TamperedTerms == {MaxTerm, LifetimeDays}

\* somebody who can open the envelope (LICENSE_MASTER_KEY is in the
\* environment of the machine) puts another max_days in the record and seals
\* it again, the serial left as it was
Tamper(path, d) ==
    /\ files[path].kind = "envelope"
    /\ files[path].plain.MaxDays # d
    /\ files' = [files EXCEPT ![path] =
          [@ EXCEPT !.nonce = FreshNonce(files[path]), !.plain.MaxDays = d]]
    /\ last' = NoCall
    /\ UNCHANGED <<clock, zone, revoked, inflight>>

NextTamper ==
    \/ \E req \in DamageRequests : Create(Mgr, req)
    \/ \E p \in Products : Validate(Mgr, p)
    \/ \E p \in Products : View(Mgr, p)
    \/ \E path \in Paths, d \in TamperedTerms : Tamper(path, d)
    \/ TickMany

SpecTamper == Init /\ [][NextTamper]_vars

(* ------------------- records written without usage_map ------------------ *)

\* the file holds the record as a version without the usage_map field wrote
\* it: the same record, usage_map absent
WrittenWithoutMap(path) ==
    /\ files[path].kind = "envelope"
    /\ ~files[path].plain.UsageMap.isNil
    /\ files' = [files EXCEPT ![path].plain.UsageMap = NilMap]
    /\ last' = NoCall
    /\ UNCHANGED <<clock, zone, revoked, inflight>>

NextLegacy ==
    \/ \E req \in DamageRequests : Create(Mgr, req)
    \/ \E p \in Products : Validate(Mgr, p)
    \/ \E path \in Paths : WrittenWithoutMap(path)
    \/ Tick
    \/ SetClockBack

SpecLegacy == Init /\ [][NextLegacy]_vars

(* ------------------------ a local zone that changes ---------------------- *)

\* the UTC offsets of time.Local: UTC itself and zones east of it
Zones == 0..MaxZone

\* the UTC offset in effect changes (daylight saving ends or begins, the
\* machine is put in another time zone); the instant is the same
ChangeZone(z) ==
    /\ z # zone
    /\ zone' = z
    /\ last' = NoCall
    /\ UNCHANGED <<files, clock, revoked, inflight>>

NextZone ==
    \/ \E req \in DamageRequests : Create(Mgr, req)
    \/ \E p \in Products : Validate(Mgr, p)
    \/ \E z \in Zones : ChangeZone(z)
    \/ Tick

SpecZone == Init /\ [][NextZone]_vars

(* ------------------------- reading the last call ----------------------- *)

\* the path the last call worked on
LastPath == GetLicenseFilePathForProduct(last.product)

\* the last call found an envelope that its manager's key opens
PreReadable ==
    /\ last.pre.kind = "envelope"
    /\ last.pre.key = DeriveEncryptionKey(last.mgr.crypto)

\* the record in the file before the last call
PreLicense == last.pre.plain

\* the last call ran on the machine the record is bound to, with the secret
\* the record was created under
OnBoundMachine ==
    /\ PreReadable
    /\ PreLicense.PCId = last.mgr.PCID
    /\ PreLicense.Serial = GenerateSerial(last.mgr.crypto, last.mgr.PCID,
                                          PreLicense.ProductName, PreLicense.MaxDays)

\* the record in the file after the last call
PostLicense == files[LastPath].plain

\* the calendar day of a full timestamp: its first ten characters
DayOf(stamp) == stamp[1] \div TicksPerDay

\* a record whose allowed days are all used
Exhausted(license) ==
    /\ ~license.IsLifetime
    /\ license.MaxDays >= 1
    /\ Len(license.UsageHistory) = license.MaxDays

(* -------------------------------- C1 ----------------------------------- *)

\* C1: exactly N days.  A validate call on the bound machine, on a record of
\* finite term N >= 1, with a clock that is not behind the last use, succeeds
\* when today is among the first N distinct days of use, and then the days
\* on record are those before plus today; on an (N+1)th distinct day it
\* fails with the license-expired error.
ExactlyNDays ==
    (/\ last.op = "validate"
     /\ OnBoundMachine
     /\ ~PreLicense.IsLifetime
     /\ PreLicense.MaxDays >= 1
     /\ ~StringGreater(PreLicense.LastUsedDate, last.now))
    => LET days == Range(PreLicense.UsageHistory) \cup {DayOf(last.now)} IN
       IF Cardinality(days) <= PreLicense.MaxDays
       THEN /\ last.err = ""
            /\ Range(last.ret.UsageHistory) = days
            /\ Range(PostLicense.UsageHistory) = days
       ELSE last.err = ErrExpired

\* a validate call on the day after the N = MaxTerm allowed days has failed
ExactlyNDaysWitness ==
    /\ last.op = "validate"
    /\ OnBoundMachine
    /\ Exhausted(PreLicense)
    /\ PreLicense.MaxDays = MaxTerm
    /\ PreLicense.RunCount > PreLicense.MaxDays
    /\ ~StringGreater(PreLicense.LastUsedDate, last.now)
    /\ last.err = ErrExpired

(* -------------------------------- C2 ----------------------------------- *)

\* C2: rollback law.  A validate call that captures a timestamp earlier than
\* the last_used_date of an activated record fails with the clock-rollback
\* error, returns no record and leaves the file as it was.
RollbackLaw ==
    (/\ last.op = "validate"
     /\ OnBoundMachine
     /\ PreLicense.IsActivated
     /\ PreLicense.LastUsedDate # EmptyString
     /\ StringLess(last.now, PreLicense.LastUsedDate))
    => /\ last.err = ErrRollback
       /\ last.ret = NoLicense
       /\ files[LastPath] = last.pre

\* a validate call with the clock set back has been made on an active record
RollbackLawWitness ==
    /\ last.op = "validate"
    /\ OnBoundMachine
    /\ PreLicense.IsActivated
    /\ PreLicense.RunCount >= 2
    /\ StringLess(last.now, PreLicense.LastUsedDate)
    /\ last.err = ErrRollback

(* -------------------------------- C3 ----------------------------------- *)

\* C3: machine binding.  A validate or view call on a record bound to another
\* machine than the caller's fails with the wrong-machine error, returns no
\* record and leaves the file byte-identical, whatever the state of the
\* record.
MachineBinding ==
    (/\ last.op \in {"validate", "view"}
     /\ PreReadable
     /\ PreLicense.PCId # last.mgr.PCID)
    => /\ last.err = IF last.op = "validate" THEN ErrWrongPC ELSE ErrViewWrongPC
       /\ last.ret = NoLicense
       /\ files[LastPath] = last.pre

\* a validate call from another machine has been rejected on an exhausted record
MachineBindingWitness ==
    /\ last.op = "validate"
    /\ PreReadable
    /\ PreLicense.PCId # last.mgr.PCID
    /\ Exhausted(PreLicense)
    /\ last.err = ErrWrongPC

(* -------------------------------- C4 ----------------------------------- *)

\* the error of a call whose file did not decrypt
DecryptError(op) == IF op = "view" THEN ErrViewDecrypt ELSE ErrDecrypt

\* C4: revocation law.  Once a revoke of the path has succeeded, a validate
\* call reports the license invalid with the decryption failure, a view
\* call fails with the decryption failure, and neither returns a record.
RevocationLaw ==
    (/\ last.op \in {"validate", "view"}
     /\ LastPath \in revoked)
    => /\ last.err = DecryptError(last.op)
       /\ last.ret = NoLicense
       /\ last.goErr = (last.op = "view")

\* a view call has failed on a revoked license
RevocationLawWitness ==
    /\ last.op = "view"
    /\ LastPath \in revoked
    /\ last.pre.kind = "random"
    /\ last.err = ErrViewDecrypt

(* -------------------------------- C5 ----------------------------------- *)

\* C5: revocation is irreversible.  A path on which a revoke has succeeded
\* holds a file for ever after, and never one that a manager can decrypt: a
\* later create fails with already-exists, a later validate, view or GetInfo
\* fails, and a later revoke puts random bytes in the place of random bytes.
RevocationIrreversible ==
    /\ \A path \in revoked :
          /\ files[path] # NoFile
          /\ \A m \in Managers : ~Decrypt(m.crypto, files[path]).ok
    /\ (last.op # "none" /\ LastPath \in revoked) =>
          /\ last.op = "create" => (last.err = ErrExists /\ last.ret = NoLicense)
          /\ last.op \in {"validate", "view", "getinfo"} =>
                (last.err = DecryptError(last.op) /\ last.ret = NoLicense)
          /\ (last.op = "revoke" /\ last.pre.kind = "random") =>
                (last.err = "" /\ files[LastPath].kind = "random")

\* a create call has been refused on a revoked license
RevocationIrreversibleWitness ==
    /\ last.op = "create"
    /\ LastPath \in revoked
    /\ last.pre.kind = "random"
    /\ last.err = ErrExists

(* -------------------------------- C6 ----------------------------------- *)

\* C6: no file, no license.  With no file at the path, validate reports
\* not-found in its result with a nil Go error, revoke returns an error, and
\* after either call there is still no file at the path.
NoFileNoLicense ==
    /\ (last.op = "validate" /\ last.pre = NoFile) =>
          /\ last.err = ErrNotFound
          /\ ~last.goErr
          /\ last.ret = NoLicense
          /\ files[LastPath] = NoFile
    /\ (last.op = "revoke" /\ last.pre = NoFile) =>
          /\ last.err = ErrRevokeNotFound
          /\ last.goErr
          /\ files[LastPath] = NoFile
          /\ LastPath \notin revoked

\* a revoke call has been made on a product without a license file
NoFileNoLicenseWitness ==
    /\ last.op = "revoke"
    /\ last.pre = NoFile
    /\ last.goErr

(* -------------------------------- C7 ----------------------------------- *)

\* a view call leaves the file byte-identical, and on a fresh record it
\* returns run_count 0 and is_activated false
ViewFrame ==
    last.op = "view" =>
       /\ files[LastPath] = last.pre
       /\ (last.err = "" /\ ~PreLicense.IsActivated) =>
             (last.ret.RunCount = 0 /\ ~last.ret.IsActivated)

\* the step is a validate call that follows a view call of the same manager
\* and product which returned a fresh record
ValidateAfterFreshView ==
    /\ last.op = "view"
    /\ last.err = ""
    /\ ~last.ret.IsActivated
    /\ last'.op = "validate"
    /\ last'.mgr = last.mgr
    /\ last'.product = last.product

\* the validate call of the step is a first activation
FirstActivation ==
    /\ last'.err = ""
    /\ last'.ret.IsActivated
    /\ last'.ret.RunCount = 1
    /\ files'[LastPath].plain.RunCount = 1

\* C7 as stated: view is read-only, and the validate call after a view of a
\* fresh record is a first activation with run_count 1.
ViewReadOnlyAnyTerm ==
    [][ViewFrame' /\ (ValidateAfterFreshView => FirstActivation)]_vars

\* C7, amended: view is read-only, and the validate call after a view of a
\* fresh record that is a lifetime license or has a term of at least one day
\* is a first activation with run_count 1.
ViewReadOnly ==
    [][ViewFrame' /\ ((ValidateAfterFreshView
                        /\ (last.ret.IsLifetime \/ last.ret.MaxDays >= 1))
                      => FirstActivation)]_vars

\* a view call has returned a fresh record with a term of at least one day
ViewReadOnlyWitness ==
    /\ last.op = "view"
    /\ last.err = ""
    /\ ~last.ret.IsActivated
    /\ last.ret.RunCount = 0
    /\ ~last.ret.IsLifetime
    /\ last.ret.MaxDays >= 1

(* -------------------------------- C8 ----------------------------------- *)

\* C8: GetInfo is read-only.  A GetInfo call leaves run_count, usage_history,
\* last_used_date and is_activated of the persisted record as they were.
GetInfoReadOnly ==
    (last.op = "getinfo" /\ last.pre.kind = "envelope") =>
       /\ files[LastPath].kind = "envelope"
       /\ PostLicense.RunCount = PreLicense.RunCount
       /\ PostLicense.UsageHistory = PreLicense.UsageHistory
       /\ PostLicense.LastUsedDate = PreLicense.LastUsedDate
       /\ PostLicense.IsActivated = PreLicense.IsActivated

(* -------------------------------- C9 ----------------------------------- *)

\* C9: create never overwrites.  A create call that finds any file at the
\* path fails with already-exists, returns no record and leaves the file
\* byte-identical.
CreateNeverOverwrites ==
    (last.op = "create" /\ last.pre # NoFile) =>
       /\ last.err = ErrExists
       /\ last.goErr
       /\ last.ret = NoLicense
       /\ files[LastPath] = last.pre

\* a create call has been refused on an exhausted license
CreateNeverOverwritesWitness ==
    /\ last.op = "create"
    /\ PreReadable
    /\ Exhausted(PreLicense)
    /\ last.err = ErrExists

(* -------------------------------- C10 ---------------------------------- *)

\* the same record, a nil usage_map and an empty one taken for the same
SameRecord(a, b) ==
    /\ [a EXCEPT !.UsageMap = NilMap] = [b EXCEPT !.UsageMap = NilMap]
    /\ a.UsageMap.keys = b.UsageMap.keys

\* a successful create call found no file, and the file now holds, sealed
\* under the manager's key, the fresh record that the call returned
CreatedRecord ==
    (last.op = "create" /\ last.err = "") =>
       /\ last.pre = NoFile
       /\ files[LastPath].kind = "envelope"
       /\ files[LastPath].key = DeriveEncryptionKey(last.mgr.crypto)
       /\ SameRecord(Unmarshal(PostLicense), last.ret)
       /\ last.ret.RunCount = 0
       /\ ~last.ret.IsActivated
       /\ last.ret.UsageHistory = <<>>
       /\ last.ret.FirstRunDate = EmptyString
       /\ last.ret.LastUsedDate = EmptyString
       /\ last.ret.PCId = last.mgr.PCID
       /\ last.ret.ProductName = last.req.ProductName
       /\ last.ret.Serial = GenerateSerial(last.mgr.crypto, last.ret.PCId,
                                           last.ret.ProductName, PostLicense.MaxDays)

\* the step is a view call that follows a successful create call of the same
\* manager and product
ViewAfterCreate ==
    /\ last.op = "create"
    /\ last.err = ""
    /\ last'.op = "view"
    /\ last'.mgr = last.mgr
    /\ last'.product = last.product

\* C10: a successful create persists exactly the fresh record it returns,
\* bound to the manager's machine and to the stored term, and a view right
\* after it returns the same serial, product, machine, run_count and
\* is_activated.
CreatePersists ==
    [][CreatedRecord' /\ (ViewAfterCreate =>
          /\ last'.err = ""
          /\ last'.ret.Serial = last.ret.Serial
          /\ last'.ret.ProductName = last.ret.ProductName
          /\ last'.ret.PCId = last.ret.PCId
          /\ last'.ret.RunCount = last.ret.RunCount
          /\ last'.ret.IsActivated = last.ret.IsActivated)]_vars

\* a create call asking for MaxDays = -1 has stored a lifetime license
CreatePersistsWitness ==
    /\ last.op = "create"
    /\ last.err = ""
    /\ last.req.MaxDays = -1
    /\ last.ret.IsLifetime
    /\ PostLicense.MaxDays = LifetimeDays

(* -------------------------------- C11 ---------------------------------- *)

\* the record is activated at the timestamp now with one run and one day
ActivatedAt(license, now) ==
    /\ license.IsActivated
    /\ license.FirstRunDate = now
    /\ license.LastUsedDate = now
    /\ license.RunCount = 1
    /\ license.UsageHistory = <<DayOf(now)>>

\* C11: first activation.  The first validate call on a fresh record on the
\* bound machine, for a lifetime license or a term of at least one day,
\* succeeds whatever the clock reads, and the record returned and the record
\* persisted both have is_activated true, first_run_date = last_used_date =
\* the captured timestamp, run_count 1 and usage_history = [today].
FirstActivationLaw ==
    (/\ last.op = "validate"
     /\ OnBoundMachine
     /\ ~PreLicense.IsActivated
     /\ (PreLicense.IsLifetime \/ PreLicense.MaxDays >= 1))
    => /\ last.err = ""
       /\ ActivatedAt(last.ret, last.now)
       /\ files[LastPath].kind = "envelope"
       /\ ActivatedAt(Unmarshal(PostLicense), last.now)

\* a record has been activated with the clock set to a day before the day it
\* was created on
FirstActivationLawWitness ==
    /\ last.op = "validate"
    /\ OnBoundMachine
    /\ ~PreLicense.IsActivated
    /\ ~PreLicense.IsLifetime
    /\ PreLicense.MaxDays >= 1
    /\ DayOf(last.now) < PreLicense.CreatedAt
    /\ last.err = ""
    /\ last.ret.RunCount = 1

(* -------------------------------- C12 ---------------------------------- *)

\* the record after a later run at the timestamp now: one more run,
\* last_used_date = now, today at the end of the days unless it is among them
UsageRecorded(license, before, now) ==
    /\ license.RunCount = before.RunCount + 1
    /\ license.LastUsedDate = now
    /\ license.UsageHistory =
          IF DayOf(now) \in Range(before.UsageHistory)
          THEN before.UsageHistory
          ELSE Append(before.UsageHistory, DayOf(now))

\* C12: usage accounting on a later run.  A successful validate call on an
\* activated record, with a captured timestamp strictly later than
\* last_used_date, adds exactly 1 to run_count, sets last_used_date to the
\* captured timestamp, and appends today to usage_history if and only if
\* today is not in it; on a day already on record usage_history is unchanged.
UsageAccounting ==
    (/\ last.op = "validate"
     /\ OnBoundMachine
     /\ PreLicense.IsActivated
     /\ StringLess(PreLicense.LastUsedDate, last.now)
     /\ last.err = "")
    => /\ UsageRecorded(last.ret, PreLicense, last.now)
       /\ files[LastPath].kind = "envelope"
       /\ UsageRecorded(Unmarshal(PostLicense), PreLicense, last.now)

\* a validate call at a later instant of a day already on record has succeeded
UsageAccountingWitness ==
    /\ last.op = "validate"
    /\ OnBoundMachine
    /\ PreLicense.IsActivated
    /\ StringLess(PreLicense.LastUsedDate, last.now)
    /\ DayOf(last.now) \in Range(PreLicense.UsageHistory)
    /\ last.err = ""
    /\ last.ret.UsageHistory = PreLicense.UsageHistory
    /\ last.ret.RunCount = PreLicense.RunCount + 1

(* -------------------------------- C13 ---------------------------------- *)

\* a validate call on an activated record whose last_used_date is the
\* timestamp the call captures
SameInstantCall ==
    /\ last.op = "validate"
    /\ OnBoundMachine
    /\ PreLicense.IsActivated
    /\ PreLicense.LastUsedDate = last.now

\* a same-instant call succeeds, and returns and persists the record it read
\* with 1 added to run_count and nothing else changed
SameInstantFrame ==
    SameInstantCall =>
       /\ last.err = ""
       /\ last.ret = [PreLicense EXCEPT !.RunCount = @ + 1]
       /\ files[LastPath].kind = "envelope"
       /\ Unmarshal(PostLicense) = [PreLicense EXCEPT !.RunCount = @ + 1]

\* the step is a validate call that follows, with the clock not moved, a
\* successful validate call of the same manager and product
ValidateInARow ==
    /\ last.op = "validate"
    /\ last.err = ""
    /\ last'.op = "validate"
    /\ last'.mgr = last.mgr
    /\ last'.product = last.product

\* C13: same-instant calls.  A validate call on an activated record with a
\* captured timestamp equal to last_used_date succeeds, persists run_count
\* plus 1 and leaves usage_history, usage_map, last_used_date and
\* first_run_date as they were; each further such call in a row adds exactly
\* 1 to run_count again.
SameInstantLaw ==
    [][SameInstantFrame' /\ (ValidateInARow =>
          /\ last'.err = ""
          /\ last'.ret.RunCount = last.ret.RunCount + 1
          /\ last'.ret.UsageHistory = last.ret.UsageHistory
          /\ last'.ret.LastUsedDate = last.ret.LastUsedDate)]_vars

\* two same-instant calls in a row have followed the activation
SameInstantLawWitness ==
    /\ SameInstantCall
    /\ PreLicense.FirstRunDate = last.now
    /\ PreLicense.RunCount = 2
    /\ last.err = ""
    /\ last.ret.RunCount = 3

(* -------------------------------- C14 ---------------------------------- *)

\* C14: a lifetime license never expires.  A validate call on the bound
\* machine on a record with is_lifetime true never fails with the
\* license-expired error, and with a clock that is not behind last_used_date
\* it succeeds, on however many distinct days the license has been used,
\* more days than the stored max_days sentinel included.
LifetimeNeverExpires ==
    (/\ last.op = "validate"
     /\ OnBoundMachine
     /\ PreLicense.IsLifetime)
    => /\ last.err # ErrExpired
       /\ ~StringGreater(PreLicense.LastUsedDate, last.now) =>
             /\ last.err = ""
             /\ last.ret.IsLifetime
             /\ PostLicense.IsLifetime

\* a lifetime license has been validated on more distinct days than its
\* max_days sentinel
LifetimeNeverExpiresWitness ==
    /\ last.op = "validate"
    /\ OnBoundMachine
    /\ PreLicense.IsLifetime
    /\ last.err = ""
    /\ Len(last.ret.UsageHistory) > last.ret.MaxDays
    /\ last.ret.MaxDays = ShortLifetimeDays

(* -------------------------------- C15 ---------------------------------- *)

\* is_lifetime and the sentinel agree in a record
SentinelAgrees(license, m) ==
    license.IsLifetime <=> license.MaxDays = m.LifetimeDays

\* C15: lifetime flag and sentinel agree.  A successful create call stores
\* is_lifetime true exactly when the request has IsLifetime set, or MaxDays
\* = -1, or MaxDays >= the configured sentinel, and then stores max_days =
\* the sentinel; and in every record on file and every record a validate
\* call returns, is_lifetime is true if and only if max_days is the sentinel.
LifetimeSentinel ==
    /\ (last.op = "create" /\ last.err = "") =>
          /\ last.ret.IsLifetime =
                (\/ last.req.IsLifetime
                 \/ last.req.MaxDays = -1
                 \/ last.req.MaxDays >= last.mgr.LifetimeDays)
          /\ last.ret.IsLifetime => last.ret.MaxDays = last.mgr.LifetimeDays
          /\ PostLicense.IsLifetime = last.ret.IsLifetime
          /\ PostLicense.MaxDays = last.ret.MaxDays
    /\ \A path \in DOMAIN files, m \in Managers :
          files[path].kind = "envelope" => SentinelAgrees(files[path].plain, m)
    /\ (last.op = "validate" /\ last.err = "") => SentinelAgrees(last.ret, last.mgr)

\* a create call with the IsLifetime flag and a finite MaxDays has stored the
\* sentinel
LifetimeSentinelWitness ==
    /\ last.op = "create"
    /\ last.err = ""
    /\ last.req.IsLifetime
    /\ last.req.MaxDays = MaxTerm
    /\ PostLicense.IsLifetime
    /\ PostLicense.MaxDays = LifetimeDays

(* -------------------------------- C16 ---------------------------------- *)

\* the paths of the products whose sanitized file name is not that of the
\* product of the call
OtherPaths(productName) ==
    {path \in DOMAIN files : path # GetLicenseFilePathForProduct(productName)}

\* what a validate call of manager m on the bytes data comes to, the nonce
\* of the envelope it writes left aside
Verdict(m, data, t, z) ==
    LET r == readAndVerifyLicense(m, data, m.PCID, t, z, 0)
    IN  <<r.err, r.license>>

\* C16: per-product isolation.  A create, validate, view, GetInfo or revoke
\* call on product p leaves byte-identical the file of every product whose
\* sanitized file name differs from that of p, and after a revoke of p a
\* validate call on any such product comes to what it would have come to
\* before the revoke.
ProductIsolation ==
    [][last'.op # "none" =>
          /\ \A path \in OtherPaths(last'.product) : files'[path] = files[path]
          /\ last'.op = "revoke" =>
                \A path \in OtherPaths(last'.product) :
                    Verdict(last'.mgr, files'[path], clock', zone')
                       = Verdict(last'.mgr, files[path], clock, zone)]_vars

\* a license has been validated after the license of a product with another
\* file name was revoked
ProductIsolationWitness ==
    /\ last.op = "validate"
    /\ last.err = ""
    /\ last.ret.RunCount >= 2
    /\ \E path \in revoked : path # LastPath /\ files[path].kind = "random"

(* -------------------------------- C17 ---------------------------------- *)

\* the record that the manager of the last call reads out of the file now
DecryptedNow == Unmarshal(Decrypt(last.mgr.crypto, files[LastPath]).plain)

\* C17: every successful validate call returns exactly the record it
\* persisted: decrypting the file right after the call gives a record equal
\* to the one returned, usage_map included, on the first-activation path, on
\* the same-instant path and on the normal path.
ReturnsWhatItPersists ==
    (last.op = "validate" /\ last.err = "") =>
       /\ Decrypt(last.mgr.crypto, files[LastPath]).ok
       /\ DecryptedNow = last.ret
       /\ files[LastPath] # last.pre

\* a validate call on a new day of an activated record has succeeded
ReturnsWhatItPersistsWitness ==
    /\ last.op = "validate"
    /\ last.err = ""
    /\ PreLicense.IsActivated
    /\ DayOf(last.now) \notin Range(PreLicense.UsageHistory)
    /\ Len(last.ret.UsageHistory) = 2
    /\ DecryptedNow = last.ret

(* -------------------------------- C18 ---------------------------------- *)

\* C18: a failed or interrupted save never leaves a partially written file.
\* After a validate call whose write failed or stopped part-way, the path
\* holds the complete previous envelope or a complete new one, and the
\* license that was valid before still decrypts.
SaveNeverPartial ==
    (last.op = "validate" /\ last.err = ErrSave) =>
       /\ files[LastPath] = last.pre \/ files[LastPath].kind = "envelope"
       /\ Decrypt(last.mgr.crypto, files[LastPath]).ok

(* -------------------------------- C19 ---------------------------------- *)

\* the last call found an envelope sealed by a manager with another master
\* secret than that of the manager of the call
PreSealedByOther ==
    /\ last.pre.kind = "envelope"
    /\ \E m \in KeyManagers :
          /\ m.crypto.masterKey # last.mgr.crypto.masterKey
          /\ last.pre = Encrypt(m.crypto, last.pre.plain, last.pre.nonce)

\* C19: envelope round-trip and key separation.  For every payload on file
\* and every master secret S, Decrypt of Encrypt under S gives the payload
\* back, and Decrypt under another secret fails; a validate or view call of
\* a manager built with another secret than the one the license was created
\* under fails with the decryption failure and leaves the file unchanged.
KeySeparation ==
    /\ \A path \in DOMAIN files, m \in KeyManagers, m2 \in KeyManagers :
          files[path].kind = "envelope" =>
             LET x == files[path].plain
                 e == Encrypt(m.crypto, x, files[path].nonce)
             IN  /\ Decrypt(m.crypto, e) = [ok |-> TRUE, plain |-> x]
                 /\ m2.crypto.masterKey # m.crypto.masterKey
                       => ~Decrypt(m2.crypto, e).ok
    /\ (last.op \in {"validate", "view"} /\ PreSealedByOther) =>
          /\ last.err = DecryptError(last.op)
          /\ last.ret = NoLicense
          /\ files[LastPath] = last.pre

\* a validate call of a manager built with another master secret has failed
\* on an activated license
KeySeparationWitness ==
    /\ last.op = "validate"
    /\ PreSealedByOther
    /\ last.pre.plain.IsActivated
    /\ last.err = ErrDecrypt
    /\ files[LastPath] = last.pre

(* -------------------------------- C20 ---------------------------------- *)

\* the last call found a file that its manager cannot decrypt
PreUndecryptable ==
    /\ last.pre # NoFile
    /\ ~Decrypt(last.mgr.crypto, last.pre).ok

\* C20: no side channel reveals revocation.  On every file that cannot be
\* decrypted (random bytes of a revoke, an envelope with flipped bits, a
\* truncated file, one shorter than a nonce included) a validate call gives
\* the failure message it gives on a revoked file, and so does a view call.
NoSideChannel ==
    (last.op \in {"validate", "view"} /\ PreUndecryptable) =>
       /\ last.err = DecryptError(last.op)
       /\ last.detail = Decrypt(last.mgr.crypto, RandomFile(0)).err

(* -------------------------------- C21 ---------------------------------- *)

\* the last call found an envelope that the process with the key from the
\* environment sealed on the machine of the call
PreSealedByEnv ==
    /\ last.pre.kind = "envelope"
    /\ last.pre = Encrypt(EnvManager.crypto, last.pre.plain, last.pre.nonce)
    /\ last.pre.plain.PCId = last.mgr.PCID

\* C21: same master key, same derived keys.  For every master-key string the
\* manager built from the environment variable and the one built from the
\* argument derive the same serial key and the same encryption key, and the
\* two keys of a manager are derived under different purpose labels; so a
\* license created by the one is decrypted, found bound to the machine and
\* found to carry the right serial by the other: view succeeds, and validate
\* activates a fresh license of lifetime or positive term.
SameKeySameKeys ==
    /\ \A k \in MasterKeys :
          LET env == NewCryptoManager(k)
              arg == NewCryptoManagerWithKey(k)
          IN  /\ DeriveSerialKey(env) = DeriveSerialKey(arg)
              /\ DeriveEncryptionKey(env) = DeriveEncryptionKey(arg)
              /\ DeriveSerialKey(arg) # DeriveEncryptionKey(arg)
              /\ DeriveSerialKey(arg)[3] # DeriveEncryptionKey(arg)[3]
    /\ (last.op \in {"validate", "view"} /\ last.mgr = ArgManager /\ PreSealedByEnv) =>
          /\ last.err \in {"", ErrRollback, ErrExpired}
          /\ last.op = "view" => (last.err = "" /\ last.ret = Unmarshal(last.pre.plain))
          /\ (/\ last.op = "validate"
              /\ ~last.pre.plain.IsActivated
              /\ (last.pre.plain.IsLifetime \/ last.pre.plain.MaxDays >= 1))
             => (last.err = "" /\ last.ret.RunCount = 1)

\* the manager built from the argument has validated, for the second time, a
\* license that the manager built from the environment created
SameKeySameKeysWitness ==
    /\ last.op = "validate"
    /\ last.mgr = ArgManager
    /\ PreSealedByEnv
    /\ last.err = ""
    /\ last.ret.RunCount = 2
    /\ last.ret.Serial = GenerateSerial(EnvManager.crypto, M1, last.product,
                                        last.ret.MaxDays)

(* -------------------------------- C22 ---------------------------------- *)

\* the two serials differ, canonical string and token
BoundApart == last.dataA # last.dataB /\ last.tokenA # last.tokenB

\* the number of components in which the two inputs differ
ComponentsChanged ==
    Cardinality({f \in {"pcId", "productName", "maxDays"} : last.a[f] # last.b[f]})

\* C22 as stated: the same inputs get the same token, and any two inputs
\* that differ in at least one component get different canonical strings and
\* different tokens, also when a product name or a machine id holds '|'.
SerialInjective ==
    last.op = "bound" =>
       /\ last.a = last.b => last.tokenA = last.tokenB
       /\ last.a # last.b => BoundApart

\* C22, amended: the same inputs get the same token, and two inputs that
\* differ get different canonical strings and different tokens when neither
\* machine id holds '|' (product names may), or when they differ in exactly
\* one component.
SerialInjectivePlainId ==
    last.op = "bound" =>
       /\ last.a = last.b => last.tokenA = last.tokenB
       /\ (/\ last.a # last.b
           /\ \/ "|" \notin Range(last.a.pcId) \cup Range(last.b.pcId)
              \/ ComponentsChanged = 1)
          => BoundApart

\* two inputs with different machine ids free of '|' and different product
\* names holding '|' have been bound
SerialInjectivePlainIdWitness ==
    /\ last.op = "bound"
    /\ last.a.pcId # last.b.pcId
    /\ "|" \notin Range(last.a.pcId) \cup Range(last.b.pcId)
    /\ last.a.productName # last.b.productName
    /\ "|" \in Range(last.a.productName) \cap Range(last.b.productName)
    /\ last.a.pcId \o last.a.productName = last.b.pcId \o last.b.productName
    /\ BoundApart

(* -------------------------------- C23 ---------------------------------- *)

\* max(a, b)
Max(a, b) == IF a > b THEN a ELSE b

\* what a validate call of manager m on the bytes data comes to at the
\* instant of the state
VerdictNow(m, data) ==
    readAndVerifyLicense(m, data, m.PCID, clock, zone, 0).err

\* a GetInfo call fails exactly when a validate call on the file it found
\* reports the license invalid, and otherwise it reports the days used, the
\* days remaining and the run count of the record that is on file after it
GetInfoReport ==
    last.op = "getinfo" =>
       /\ last.goErr <=> VerdictNow(last.mgr, last.pre) # ""
       /\ last.goErr => last.ret = NoLicense /\ files[LastPath] = last.pre
       /\ ~last.goErr =>
             /\ files[LastPath].kind = "envelope"
             /\ last.ret.UsedDays = Len(PostLicense.UsageHistory)
             /\ last.ret.RemainingDays =
                   IF PostLicense.IsLifetime THEN 0
                   ELSE Max(PostLicense.MaxDays - last.ret.UsedDays, 0)
             /\ last.ret.RunCount = PostLicense.RunCount
             /\ last.ret.RunCount = (IF PreLicense.IsActivated
                                     THEN PreLicense.RunCount ELSE 0) + 1

\* the step is a GetInfo call that follows the validate call which activated
\* the license, by the same manager on the same product
GetInfoAfterActivation ==
    /\ last.op = "validate"
    /\ last.err = ""
    /\ last.ret.RunCount = 1
    /\ last'.op = "getinfo"
    /\ last'.mgr = last.mgr
    /\ last'.product = last.product

Persisted == {files[path].plain : path \in {q \in DOMAIN files : files[q].kind = "envelope"}}

\* the days are strictly increasing, hence pairwise distinct
Chronological(history) ==
    \A i \in 1..Len(history), j \in 1..Len(history) : i < j => history[i] < history[j]

\* C24: usage_history is duplicate-free and chronological.  In every record
\* on file, whatever the clock was set to between the calls, the days of
\* usage_history are pairwise distinct and strictly increasing, and the last
\* of them is the calendar day of last_used_date when the record is
\* activated.
HistoryChronological ==
    \A license \in Persisted :
       /\ Chronological(license.UsageHistory)
       /\ Cardinality(Range(license.UsageHistory)) = Len(license.UsageHistory)
       /\ license.IsActivated =>
             /\ license.UsageHistory # <<>>
             /\ license.UsageHistory[Len(license.UsageHistory)]
                   = DayOf(license.LastUsedDate)
       /\ ~license.IsActivated => license.UsageHistory = <<>>

\* a validate call with the clock set back to an earlier day has been
\* refused on a record with two days of use
HistoryChronologicalWitness ==
    /\ last.op = "validate"
    /\ last.err = ErrRollback
    /\ Len(PreLicense.UsageHistory) = 2
    /\ DayOf(last.now) < PreLicense.UsageHistory[1]
    /\ files[LastPath] = last.pre

(* -------------------------------- C25 ---------------------------------- *)

\* usage_map, when present, has the days of usage_history for its keys
MapInSync(license) ==
    ~license.UsageMap.isNil =>
       /\ license.UsageMap.keys = Range(license.UsageHistory)
       /\ Cardinality(license.UsageMap.keys) = Len(license.UsageHistory)

\* C25: usage_map stays in sync with usage_history.  In every record that
\* create or validate returns or puts on file and in which usage_map is
\* present, the keys of usage_map are the entries of usage_history, and
\* there are as many of the ones as of the others.
UsageMapInSync ==
    /\ \A license \in Persisted : MapInSync(Unmarshal(license))
    /\ (last.op \in {"create", "validate"} /\ last.err = "") => MapInSync(last.ret)

\* a validate call has returned a record with a usage_map of two days
UsageMapInSyncWitness ==
    /\ last.op = "validate"
    /\ last.err = ""
    /\ ~last.ret.UsageMap.isNil
    /\ Cardinality(last.ret.UsageMap.keys) = 2
    /\ ~PostLicense.UsageMap.isNil

(* -------------------------------- C26 ---------------------------------- *)

\* C26: usage never exceeds the term.  Every record of finite term that
\* create or validate has put on file, and every such record that a
\* successful validate call returns, has no more days in usage_history than
\* max_days, whatever MaxDays the create call was given.
UsageWithinTerm ==
    /\ \A license \in Persisted :
          ~license.IsLifetime => Len(license.UsageHistory) <= license.MaxDays
    /\ (last.op = "validate" /\ last.err = "" /\ ~last.ret.IsLifetime) =>
          Len(last.ret.UsageHistory) <= last.ret.MaxDays

(* -------------------------------- C27 ---------------------------------- *)

\* the fields that bind a record
Binding(license) ==
    <<license.PCId, license.ProductName, license.Serial, license.MaxDays,
      license.IsLifetime, license.CreatedAt>>

\* C27: binding fields are write-once.  Whatever call is made on a path that
\* holds a record, if the path holds a record afterwards then its pc_id,
\* product_name, serial, max_days, is_lifetime and created_at are those that
\* were there before, so they stay as create wrote them.
BindingWriteOnce ==
    [][\A path \in DOMAIN files :
          (files[path].kind = "envelope" /\ files'[path].kind = "envelope")
             => Binding(files'[path].plain) = Binding(files[path].plain)]_vars

\* a validate call on a later day than the day of creation has saved the
\* record with the day of creation unchanged
BindingWriteOnceWitness ==
    /\ last.op = "validate"
    /\ last.err = ""
    /\ last.ret.RunCount >= 2
    /\ DayOf(last.now) > PreLicense.CreatedAt
    /\ files[LastPath] # last.pre
    /\ Binding(PostLicense) = Binding(PreLicense)

(* -------------------------------- C28 ---------------------------------- *)

\* run_count of the bytes at a path, 0 when they are not a record
RunCountOf(data) == IF data.kind = "envelope" THEN data.plain.RunCount ELSE 0

\* what a call does to run_count on file: a successful create leaves 0, a
\* successful validate (also inside GetInfo) adds exactly 1, a failed call
\* and a view add nothing
CountsTheCall ==
    /\ (last.op = "create" /\ last.err = "") => RunCountOf(files[LastPath]) = 0
    /\ (last.op \in {"validate", "getinfo"} /\ last.err = "") =>
          RunCountOf(files[LastPath]) = RunCountOf(last.pre) + 1
    /\ (last.op \in {"validate", "getinfo", "create"} /\ last.err # "") =>
          files[LastPath] = last.pre
    /\ last.op = "view" => files[LastPath] = last.pre

\* C28: run_count counts validations.  With the calls on a path made one
\* after the other, run_count on file is 0 after create and each call
\* changes it by 1 if it is a validation that succeeded (same-day and
\* same-instant repeats alike) and by 0 otherwise, so it is the number of
\* successful validations since creation; and it is never less than the
\* number of days in usage_history.
RunCountCounts ==
    [][/\ CountsTheCall'
       /\ last'.op = "none" => files' = files
       /\ \A license \in Persisted' :
             license.RunCount >= Len(license.UsageHistory)]_vars

\* the third successful validation of a license used on one day only
RunCountCountsWitness ==
    /\ last.op = "validate"
    /\ last.err = ""
    /\ PreLicense.RunCount = 2
    /\ PostLicense.RunCount = 3
    /\ Len(PostLicense.UsageHistory) = 1

(* -------------------------------- C30 ---------------------------------- *)

\* the error of the first check of a validate call that fails on the bytes
\* data, "" when the checks before the expiration check all pass
FirstFailing(m, data, now) ==
    IF data = NoFile THEN ErrNotFound
    ELSE IF ~(data.kind = "envelope" /\ data.key = DeriveEncryptionKey(m.crypto))
    THEN ErrDecrypt
    ELSE IF data.plain.PCId # m.PCID THEN ErrWrongPC
    ELSE IF data.plain.Serial #
               GenerateSerial(m.crypto, m.PCID, data.plain.ProductName,
                              data.plain.MaxDays)
    THEN ErrSerial
    ELSE IF data.plain.IsActivated /\ StringLess(now, data.plain.LastUsedDate)
    THEN ErrRollback
    ELSE ""

BothValidated ==
    /\ \A i \in Procs : inflight[i].pc = "done" /\ inflight[i].err = ""
    /\ inflight[1].product = inflight[2].product
    /\ inflight[1].pre = inflight[2].pre
    /\ {inflight[i].race : i \in Procs} = {"first", "second"}

\* C29: lost update under concurrency.  When two validate calls on a path
\* overlap, both having read the file before either writes, and both report
\* success, run_count on file is only 1 more than it was before the two
\* calls (each of them returns that same count), and the file holds the
\* envelope of the call that wrote last.
LostUpdate ==
    BothValidated =>
       LET path   == GetLicenseFilePathForProduct(inflight[1].product)
           before == RunCountOf(inflight[1].pre)
       IN  /\ RunCountOf(files[path]) = before + 1
           /\ \A i \in Procs : inflight[i].ret.RunCount = before + 1
           /\ \A i \in Procs : inflight[i].race = "second" =>
                 files[path] = inflight[i].wrote

\* two overlapping validate calls on an activated license have both reported
\* success, at different instants
LostUpdateWitness ==
    /\ BothValidated
    /\ inflight[1].pre.plain.IsActivated
    /\ inflight[1].ret.LastUsedDate # inflight[2].ret.LastUsedDate
    /\ inflight[1].race = "second"
    /\ RunCountOf(files[GetLicenseFilePathForProduct(inflight[1].product)])
          = RunCountOf(inflight[1].pre) + 1

(* -------------------------------- C31 ---------------------------------- *)

\* C31: an expired validation persists nothing.  When a validate call fails
\* with the license-expired error, the file holds the bytes it held before the
\* call: the stored days of use, run count and last-used timestamp are those
\* of before, the extra day is not on record.
ExpiredPersistsNothing ==
    (last.op = "validate" /\ last.err = ErrExpired)
        => /\ files[LastPath] = last.pre
           /\ last.ret = NoLicense
           /\ PostLicense.UsageHistory = PreLicense.UsageHistory
           /\ PostLicense.RunCount = PreLicense.RunCount
           /\ PostLicense.LastUsedDate = PreLicense.LastUsedDate

\* a validate call on an activated record with all its days used, on a day
\* that is not on record and later than the last use, fails as expired
ExpiredPersistsNothingWitness ==
    /\ last.op = "validate"
    /\ last.err = ErrExpired
    /\ PreLicense.IsActivated
    /\ Exhausted(PreLicense)
    /\ StringLess(PreLicense.LastUsedDate, last.now)
    /\ DayOf(last.now) \notin Range(PreLicense.UsageHistory)

(* -------------------------------- C32 ---------------------------------- *)

\* the error of a validate call of the manager of the last call on the file
\* as it is now, were the clock to read t
ErrorAt(t) == Verdict(last.mgr, files[LastPath], t, zone)[1]

\* C32: expired is terminal.  Once a validate call has failed with the
\* license-expired error, a validate call on that record fails whatever the
\* clock reads when it is made, a clock set back to the last recorded day of
\* use included.
ExpiredIsTerminal ==
    (last.op = "validate" /\ last.err = ErrExpired)
        => \A t \in 0..MaxTime : ErrorAt(t) # ""

(* -------------------------------- C33 ---------------------------------- *)

\* the last call found a record it can decrypt, bound to its machine, whose
\* serial is not the one bound to machine, product and term
PreSerialMismatch ==
    /\ PreReadable
    /\ PreLicense.PCId = last.mgr.PCID
    /\ PreLicense.Serial # GenerateSerial(last.mgr.crypto, last.mgr.PCID,
                                          PreLicense.ProductName, PreLicense.MaxDays)

\* C33: view performs the serial check.  On a decryptable record bound to the
\* current machine whose stored serial is not the one bound to machine,
\* product and term, a view call fails with the invalid-serial error and
\* returns no record, as a validate call does.
ViewChecksSerial ==
    (last.op = "view" /\ PreSerialMismatch)
        => /\ last.err = ErrSerial
           /\ last.ret = NoLicense

(* -------------------------------- C34 ---------------------------------- *)

\* the bytes the last call found, with usage_map absent if it is present and
\* with the days of usage_history for usage_map if it is absent
PreOtherMap ==
    [last.pre EXCEPT !.plain.UsageMap =
        IF @.isNil THEN MakeMap(Range(PreLicense.UsageHistory)) ELSE NilMap]

\* the validate call of the last call, on those bytes
OnOtherMap ==
    readAndVerifyLicense(last.mgr, PreOtherMap, last.mgr.PCID, clock, zone,
                         FreshNonce(last.pre))

\* C34: usage_map is only an accelerator.  A validate call on an activated
\* record with usage_map absent and the call on the same record with
\* usage_map present and equal to the set of the days of usage_history, at
\* the same clock value, come to the same error or success, and on success
\* to the same run count, days of use and last-used timestamp.
UsageMapOnlyAccelerates ==
    (/\ last.op = "validate"
     /\ OnBoundMachine
     /\ PreLicense.IsActivated
     /\ PreLicense.UsageMap \in {NilMap, MakeMap(Range(PreLicense.UsageHistory))})
        => /\ OnOtherMap.err = last.err
           /\ last.err = "" =>
                /\ OnOtherMap.license.RunCount = last.ret.RunCount
                /\ OnOtherMap.license.UsageHistory = last.ret.UsageHistory
                /\ OnOtherMap.license.LastUsedDate = last.ret.LastUsedDate
                /\ Unmarshal(Decrypt(last.mgr.crypto, OnOtherMap.file).plain).RunCount
                      = PostLicense.RunCount
                /\ Unmarshal(Decrypt(last.mgr.crypto, OnOtherMap.file).plain).UsageHistory
                      = PostLicense.UsageHistory
                /\ Unmarshal(Decrypt(last.mgr.crypto, OnOtherMap.file).plain).LastUsedDate
                      = PostLicense.LastUsedDate

\* a validate call has succeeded on an activated record without usage_map,
\* at a later instant of a day that is on record
UsageMapOnlyAcceleratesWitness ==
    /\ last.op = "validate"
    /\ last.err = ""
    /\ OnBoundMachine
    /\ PreLicense.IsActivated
    /\ PreLicense.UsageMap = NilMap
    /\ PreLicense.LastUsedDate # last.now
    /\ DayOf(last.now) \in Range(PreLicense.UsageHistory)
    /\ last.ret.UsageHistory = PreLicense.UsageHistory

(* -------------------------------- C35 ---------------------------------- *)

\* the instant a full timestamp denotes: its local time less its UTC offset
InstantOf(stamp) == stamp[1] - stamp[2]

\* C35: timestamp text order equals time order.  When a validate call runs at
\* an instant later than the one of the last successful call, whatever the
\* UTC offsets in effect at the two instants, the stored timestamp is less
\* than the timestamp of the call in string comparison, and the call does not
\* fail with the clock-rollback error.
TextOrderIsTimeOrder ==
    (/\ last.op = "validate"
     /\ OnBoundMachine
     /\ PreLicense.IsActivated
     /\ InstantOf(PreLicense.LastUsedDate) < InstantOf(last.now))
        => /\ StringLess(PreLicense.LastUsedDate, last.now)
           /\ last.err # ErrRollback

(* -------------------------------- C36 ---------------------------------- *)

\* process i is in a validate call of the product of the last call and has
\* read a file that its manager can decrypt
ReadBeforeLastCall(i) ==
    /\ inflight[i].pc = "read"
    /\ inflight[i].product = last.product
    /\ Decrypt(inflight[i].mgr.crypto, inflight[i].pre).ok

\* C36: revocation holds against an in-flight validation.  When a revoke of
\* p has succeeded while a validate call of p was between its read of the
\* valid file and its write, then once the validate call has finished too the
\* file is still undecryptable: a validate call and a view call on it fail.
RevocationHoldsInFlight ==
    [][\A i \in Procs :
          (/\ last.op = "revoke"
           /\ last.err = ""
           /\ ReadBeforeLastCall(i)
           /\ inflight'[i].pc = "done")
              => /\ ~Decrypt(inflight[i].mgr.crypto, files'[LastPath]).ok
                 /\ Verdict(inflight[i].mgr, files'[LastPath], clock', zone')[1] = ErrDecrypt
                 /\ ViewResult(inflight[i].mgr, files'[LastPath]).err = ErrViewDecrypt]_vars

(* -------------------------------- C37 ---------------------------------- *)

\* the path of the create call of process i
CreatePath(i) == GetLicenseFilePathForProduct(inflight[i].req.ProductName)

\* another process has a successful create call on the path of process i
CreatedByOther(i) ==
    \E j \in Procs \ {i} :
        /\ inflight[j].pc = "created"
        /\ inflight[j].err = ""
        /\ CreatePath(j) = CreatePath(i)

\* C37: create is exclusive under concurrency.  When create calls for the
\* same path overlap, with each other or with a validate call that activates
\* the record, a create call that succeeds has written to a path that held no
\* record: no other create call of the overlap has succeeded, and no record
\* on file, activated or not, is replaced by a fresh one.
CreateExclusive ==
    [][\A i \in Procs :
          (/\ inflight[i].pc = "stat"
           /\ inflight'[i].pc = "created"
           /\ inflight'[i].err = "")
              => /\ files[CreatePath(i)] = NoFile
                 /\ ~CreatedByOther(i)
                 /\ files'[CreatePath(i)].plain.IsActivated
                       = (files[CreatePath(i)] # NoFile
                          /\ files[CreatePath(i)].plain.IsActivated)]_vars

(* -------------------------------- C38 ---------------------------------- *)

\* C38: a license validates only for the product it was issued for.  When a
\* validate or view call on product p succeeds, the record it returns has
\* product name p, also when another product name gives the same file name.
OnlyForItsProduct ==
    (last.op \in {"validate", "view"} /\ last.err = "")
        => last.ret.ProductName = last.product

(* -------------------------------- C39 ---------------------------------- *)

\* the bytes are a license file with a record in it
HasRecord(data) == data.kind = "envelope"

\* is_activated, run_count >= 1, a non-empty usage_history and non-empty
\* first_run_date and last_used_date go together, and the last use is not
\* before the first
ConsistentRecord(license) ==
    /\ license.IsActivated <=> license.RunCount >= 1
    /\ license.IsActivated <=> license.UsageHistory # <<>>
    /\ license.IsActivated <=> license.FirstRunDate # EmptyString
    /\ license.IsActivated <=> license.LastUsedDate # EmptyString
    /\ ~StringLess(license.LastUsedDate, license.FirstRunDate)

\* the record after a step has what activation gave the record before it
KeepsActivation(before, after) ==
    before.IsActivated =>
        /\ after.IsActivated
        /\ after.FirstRunDate = before.FirstRunDate
        /\ ~StringLess(after.LastUsedDate, before.LastUsedDate)

\* C39: activation is one-way and consistent.  In every record on file,
\* is_activated holds exactly when run_count >= 1, when usage_history is not
\* empty and when first_run_date and last_used_date are not empty, and
\* last_used_date is not before first_run_date; from one record on file to
\* the next an activated record stays activated, keeps its first_run_date,
\* and its last_used_date does not decrease.
ActivationOneWay ==
    [][\A path \in DOMAIN files :
          HasRecord(files'[path]) =>
              /\ ConsistentRecord(files'[path].plain)
              /\ HasRecord(files[path]) =>
                    KeepsActivation(files[path].plain, files'[path].plain)]_vars

\* a validate call has succeeded on an activated record at a later instant:
\* the record on file is still activated, with the first_run_date it had and
\* a later last_used_date
ActivationOneWayWitness ==
    /\ last.op = "validate"
    /\ last.err = ""
    /\ OnBoundMachine
    /\ PreLicense.IsActivated
    /\ PostLicense.IsActivated
    /\ PostLicense.RunCount >= 2
    /\ PostLicense.FirstRunDate = PreLicense.FirstRunDate
    /\ StringLess(PreLicense.LastUsedDate, PostLicense.LastUsedDate)
    /\ StringLess(PostLicense.FirstRunDate, PostLicense.LastUsedDate)

====
